---- MODULE Spec2Model ----
(***************************************************************************)
(* Model of visit_project/site_scheduler.py: the SiteScheduler class       *)
(* (grouping, city centres, greedy pairing, day assignment).               *)
(*                                                                         *)
(* Representation.                                                         *)
(*  - easy_access and team_number, which the scheduler never reads, are    *)
(*    the same for all sites and left out of the record.                   *)
(*  - A Site object is a record; object identity is the record's index in  *)
(*    the sequence `sites` (self.sites).  Lists of Site objects are        *)
(*    sequences of indices.  Python's == on two Site objects (the          *)
(*    dataclass __eq__) is SiteEq: equality of the declared fields.        *)
(*  - Latitudes are integers in hundredths of a degree and every site lies *)
(*    on the meridian longitude 0, where the haversine distance is         *)
(*    proportional to the latitude difference.  Distances are in metres.   *)
(*  - A date string "YYYY-MM-DD" is the tuple <<y, m, d>>, the empty       *)
(*    string is <<>>.  A datetime is its proleptic Gregorian ordinal.      *)
(***************************************************************************)
EXTENDS Integers, Sequences, FiniteSets, TLC

\* ------------------------------------------------------------------ bounds

\* Largest number of Site records handed to the scheduler.
MaxSites == 3

\* Largest number of Site records handed to a direct _find_all_pairs call.
MaxPairSites == 4

\* ------------------------------------------------------- program constants

\* R = 6371.0 (kilometres)
EarthRadiusKm == 6371

\* DEFAULT_MAX_PAIR_DISTANCE = 5.0 km, in metres
DEFAULT_MAX_PAIR_DISTANCE == 5000

\* the literal max_distance=5.0 that schedule() passes, in metres
ScheduleMaxDistance == 5000

\* ------------------------------------------------------------ input domains

\* Python's None, for an omitted distance argument and for a missing
\* team_index attribute; an omitted or empty start_date is the empty string.
NoDistance == 0 - 1
NoTeamIndex == 0 - 1
NoDate == <<>>

Names == {"a", "b"}
Lats == {0, 4, 7, 11}
PreDates == {<<2024, 2, 28>>}
StartDates == {<<2024, 2, 28>>}
Today == <<2025, 12, 31>>
Thresholds == {2000, 10000}

\* A Site as the loader builds it: no team_index attribute yet.
MkSite(name, lat, city, subcon, date) ==
    [site_name |-> name, latitude |-> lat, longitude |-> 0,
     city |-> city, subcon |-> subcon, date |-> date,
     team_index |-> NoTeamIndex]

\* The sites the scheduler is run on: four keys (two of them at the same
\* coordinates), in three (city, subcon) groups, the sites of the first
\* group with or without a date.
SchedulerKeys == {<<"a", 0>>, <<"a", 4>>, <<"b", 4>>, <<"a", 7>>}
Placements ==
    ({<<"c1", "s1">>, <<"c1", "s2">>, <<"c2", "s1">>} \X {NoDate})
    \cup ({<<"c1", "s1">>} \X PreDates)
SiteDomain ==
    {MkSite(k[1], k[2], p[1][1], p[1][2], p[2]) : k \in SchedulerKeys, p \in Placements}

\* The sites a direct _find_all_pairs call, or a scheduler with a configured
\* threshold, is run on: one group, no dates, every name at every latitude.
PairSiteDomain ==
    {MkSite(n, l, "c1", "s1", NoDate) : n \in Names, l \in Lats}

SeqsUpTo(S, n) == UNION {[1..k -> S] : k \in 0..n}

Range(s) == {s[k] : k \in DOMAIN s}

Abs(x) == IF x < 0 THEN -x ELSE x

RECURSIVE Factorial(_)
Factorial(n) == IF n <= 1 THEN 1 ELSE n * Factorial(n - 1)

\* Centre coordinates are means of up to MaxSites latitudes: they are exact
\* in units of 1/Scale of a hundredth of a degree.
Scale == Factorial(MaxSites)

Fine(lat) == lat * Scale

\* ------------------------------------------------------------------ dates

IsLeap(y) == (y % 4 = 0) /\ ((y % 100 # 0) \/ (y % 400 = 0))

DaysInMonth(y, m) ==
    IF m = 2 THEN (IF IsLeap(y) THEN 29 ELSE 28)
    ELSE IF m \in {4, 6, 9, 11} THEN 30 ELSE 31

RECURSIVE DaysBeforeMonth(_, _)
DaysBeforeMonth(y, m) ==
    IF m <= 1 THEN 0 ELSE DaysBeforeMonth(y, m - 1) + DaysInMonth(y, m - 1)

DaysBeforeYear(y) ==
    (y - 1) * 365 + ((y - 1) \div 4) - ((y - 1) \div 100) + ((y - 1) \div 400)

\* datetime.strptime(s, "%Y-%m-%d"): the datetime of a well-formed date string.
Strptime(s) == DaysBeforeYear(s[1]) + DaysBeforeMonth(s[1], s[2]) + s[3]

\* datetime.strftime("%Y-%m-%d"): the date string of a datetime.
Strftime(n) ==
    LET y == CHOOSE yy \in ((n \div 366) + 1)..((n \div 365) + 1) :
                 DaysBeforeYear(yy) < n /\ n <= DaysBeforeYear(yy + 1)
        r == n - DaysBeforeYear(y)
        m == CHOOSE mm \in 1..12 :
                 DaysBeforeMonth(y, mm) < r
                 /\ r <= DaysBeforeMonth(y, mm) + DaysInMonth(y, mm)
    IN  <<y, m, r - DaysBeforeMonth(y, m)>>

\* current_date += timedelta(days=1)
AddOneDay(n) == n + 1

\* --------------------------------------------------------------- distance

\* Metres along a meridian per hundredth of a degree: R * pi / 18000.
MetresPerCentiDegree == (EarthRadiusKm * 355 * 10) \div (113 * 180)

\* _haversine_distance, for two points of the same longitude, latitudes in
\* units of 1/Scale of a hundredth of a degree; the result is in metres.
Haversine(lat1, lon1, lat2, lon2) ==
    (Abs(lat2 - lat1) * MetresPerCentiDegree) \div Scale

\* _get_site_id: the f-string of name, latitude and longitude is injective
\* on the triple, which stands for it.
GetSiteId(site) == <<site.site_name, site.latitude, site.longitude>>

\* Site.__eq__ generated by @dataclass: the declared fields, date included,
\* the run-time attribute team_index excluded.
SiteEq(s1, s2) ==
    /\ s1.site_name = s2.site_name
    /\ s1.latitude = s2.latitude
    /\ s1.longitude = s2.longitude
    /\ s1.city = s2.city
    /\ s1.subcon = s2.subcon
    /\ s1.date = s2.date

\* ------------------------------------------------------------------ lists

\* list.sort(key=...): a stable sort; key is a function on the elements.
\* The place of x in the sorted list init: after every element whose key is
\* not greater (the sort is stable).
InsertSorted(init, x, key) ==
    LET p == Cardinality({k \in DOMAIN init : key[init[k]] <= key[x]})
    IN  SubSeq(init, 1, p) \o <<x>> \o SubSeq(init, p + 1, Len(init))

RECURSIVE SortBy(_, _)
SortBy(s, key) ==
    IF s = <<>> THEN <<>>
    ELSE InsertSorted(SortBy(SubSeq(s, 1, Len(s) - 1), key), s[Len(s)], key)

\* x in lst, for a list of Site objects: some element == x.
ListContains(tbl, lst, x) == \E k \in DOMAIN lst : SiteEq(tbl[lst[k]], tbl[x])

\* The position list.remove(x) deletes: the first element == x (0: ValueError).
FirstEqual(tbl, lst, x) ==
    IF ListContains(tbl, lst, x)
    THEN CHOOSE k \in DOMAIN lst :
             /\ SiteEq(tbl[lst[k]], tbl[x])
             /\ \A h \in 1..(k - 1) : ~SiteEq(tbl[lst[h]], tbl[x])
    ELSE 0

\* RemoveAt that leaves the element in the list.
RemoveNothing(lst, k) == lst

\* list.remove, once the position is known.
RemoveAt(lst, k) == SubSeq(lst, 1, k - 1) \o SubSeq(lst, k + 1, Len(lst))

\* ---------------------------------------------------------------- pairing

\* EnumPairs with the inner loop cut to the next element: only (i, i + 1).
RECURSIVE EnumAdjacentPairs(_, _, _)
EnumAdjacentPairs(i, j, n) ==
    IF i >= n THEN <<>>
    ELSE <<<<i, i + 1>>>> \o EnumAdjacentPairs(i + 1, i + 2, n)

\* enumerate(sites) x enumerate(sites[i+1:], start=i+1): the index pairs
\* (i, j), i < j, in generation order.
RECURSIVE EnumPairs(_, _, _)
EnumPairs(i, j, n) ==
    IF i >= n THEN <<>>
    ELSE IF j > n THEN EnumPairs(i + 1, i + 2, n)
    ELSE <<<<i, j>>>> \o EnumPairs(i, j + 1, n)

SiteDistance(tbl, a, b) ==
    Haversine(Fine(tbl[a].latitude), Fine(tbl[a].longitude),
              Fine(tbl[b].latitude), Fine(tbl[b].longitude))

\* Candidates without the `distance <= max_distance` test.
CandidatesAnyDistance(tbl, lst, max_distance) ==
    LET ij == EnumPairs(1, 2, Len(lst))
    IN  [k \in DOMAIN ij |->
            <<lst[ij[k][1]], lst[ij[k][2]],
              SiteDistance(tbl, lst[ij[k][1]], lst[ij[k][2]])>>]

\* The candidate list `pairs` before sorting: every (site1, site2, distance)
\* with i < j and distance <= max_distance.  used_site_ids stays empty
\* during the enumeration, so its two `continue` tests never fire.
Candidates(tbl, lst, max_distance) ==
    LET ij == EnumPairs(1, 2, Len(lst))
        all == [k \in DOMAIN ij |->
                   <<lst[ij[k][1]], lst[ij[k][2]],
                     SiteDistance(tbl, lst[ij[k][1]], lst[ij[k][2]])>>]
        Near(c) == c[3] <= max_distance
    IN  SelectSeq(all, Near)

\* pairs.sort(key=lambda x: x[2])
SortedCandidates(tbl, lst, max_distance) ==
    LET cands == Candidates(tbl, lst, max_distance)
    IN  SortBy(cands, [c \in Range(cands) |-> c[3]])

\* GreedySelect testing only the first site of a candidate against
\* used_site_ids_in_pairs.
RECURSIVE GreedySelectFirstIdOnly(_, _, _, _, _)
GreedySelectFirstIdOnly(tbl, sorted, k, used, selected) ==
    IF k > Len(sorted) THEN selected
    ELSE LET id1 == GetSiteId(tbl[sorted[k][1]])
             id2 == GetSiteId(tbl[sorted[k][2]])
         IN  IF id1 \notin used
             THEN GreedySelectFirstIdOnly(tbl, sorted, k + 1, used \cup {id1, id2},
                                          Append(selected, sorted[k]))
             ELSE GreedySelectFirstIdOnly(tbl, sorted, k + 1, used, selected)

\* The greedy scan: accept a candidate when neither site id is in
\* used_site_ids_in_pairs, then add both ids.
RECURSIVE GreedySelect(_, _, _, _, _)
GreedySelect(tbl, sorted, k, used, selected) ==
    IF k > Len(sorted) THEN selected
    ELSE LET id1 == GetSiteId(tbl[sorted[k][1]])
             id2 == GetSiteId(tbl[sorted[k][2]])
         IN  IF id1 \notin used /\ id2 \notin used
             THEN GreedySelect(tbl, sorted, k + 1, used \cup {id1, id2},
                               Append(selected, sorted[k]))
             ELSE GreedySelect(tbl, sorted, k + 1, used, selected)

\* _find_all_pairs(sites, max_distance) with max_distance given.
FindAllPairs(tbl, lst, max_distance) ==
    GreedySelect(tbl, SortedCandidates(tbl, lst, max_distance), 1, {}, <<>>)

\* max_distance = self.max_pair_distance when the argument is None.
EffectiveMaxDistance(arg, attr) == IF arg = NoDistance THEN attr ELSE arg

\* ----------------------------------------------------- grouping and centres

\* max_pair_distance if max_pair_distance is not None else the default
InitMaxPairDistance(arg) == IF arg = NoDistance THEN DEFAULT_MAX_PAIR_DISTANCE ELSE arg

\* strptime(start_date) if start_date else datetime.now()
InitCurrentDate(arg, now) ==
    IF arg = NoDate THEN Strptime(now) ELSE Strptime(arg)

FirstOfCity(tbl, c) == CHOOSE i \in DOMAIN tbl :
    tbl[i].city = c /\ \A h \in 1..(i - 1) : tbl[h].city # c

FirstOfGroup(tbl, c, s) == CHOOSE i \in DOMAIN tbl :
    /\ tbl[i].city = c /\ tbl[i].subcon = s
    /\ \A h \in 1..(i - 1) : ~(tbl[h].city = c /\ tbl[h].subcon = s)

\* sites_by_city_subcon, as the sequence of (city, subcon, sites) in the
\* order the two nested .items() loops of schedule() visit it: cities by first
\* appearance, subcontractors of a city by first appearance in it, the sites
\* of a group in input order.
BuildGroups(tbl) ==
    LET n == Len(tbl)
        idx == [i \in 1..n |-> i]
        IsFirst(i) == FirstOfGroup(tbl, tbl[i].city, tbl[i].subcon) = i
        firsts == SelectSeq(idx, IsFirst)
        key == [i \in Range(firsts) |-> FirstOfCity(tbl, tbl[i].city) * (n + 1) + i]
        order == SortBy(firsts, key)
    IN  [g \in DOMAIN order |->
            LET c == tbl[order[g]].city
                s == tbl[order[g]].subcon
                Member(i) == tbl[i].city = c /\ tbl[i].subcon = s
            IN  [city |-> c, subcon |-> s, sites |-> SelectSeq(idx, Member)]]

RECURSIVE SumSeq(_)
SumSeq(s) == IF s = <<>> THEN 0 ELSE s[1] + SumSeq(Tail(s))

\* BuildCenters over the sites that have no date yet.
BuildCentersOfUndated(tbl) ==
    LET idx == [i \in 1..Len(tbl) |-> i]
    IN  [c \in {tbl[i].city : i \in DOMAIN tbl} |->
            LET InCity(i) == tbl[i].city = c /\ tbl[i].date = NoDate
                all_city_sites == SelectSeq(idx, InCity)
                lats == [k \in DOMAIN all_city_sites |-> Fine(tbl[all_city_sites[k]].latitude)]
                lons == [k \in DOMAIN all_city_sites |-> Fine(tbl[all_city_sites[k]].longitude)]
            IN  IF all_city_sites = <<>> THEN <<0, 0>>
                ELSE <<SumSeq(lats) \div Len(all_city_sites),
                       SumSeq(lons) \div Len(all_city_sites)>>]

\* city_centers: the mean latitude and longitude of all sites of each city.
BuildCenters(tbl) ==
    LET idx == [i \in 1..Len(tbl) |-> i]
    IN  [c \in {tbl[i].city : i \in DOMAIN tbl} |->
            LET InCity(i) == tbl[i].city = c
                all_city_sites == SelectSeq(idx, InCity)
                lats == [k \in DOMAIN all_city_sites |-> Fine(tbl[all_city_sites[k]].latitude)]
                lons == [k \in DOMAIN all_city_sites |-> Fine(tbl[all_city_sites[k]].longitude)]
            IN  <<SumSeq(lats) \div Len(all_city_sites),
                  SumSeq(lons) \div Len(all_city_sites)>>]

\* _distance_to_center
DistanceToCenter(tbl, centers, i, city) ==
    IF city \notin DOMAIN centers THEN 0
    ELSE Haversine(Fine(tbl[i].latitude), Fine(tbl[i].longitude),
                   centers[city][1], centers[city][2])

\* ------------------------------------------------------------------ state

VARIABLES
    sites,                 \* self.sites: the Site objects, mutated in place
    initial_sites,         \* the Site objects as they were at construction
    start_date,            \* the start_date argument of __init__
    self_current_date,     \* self.current_date
    max_pair_distance,     \* self.max_pair_distance
    sites_by_city_subcon,  \* self.sites_by_city_subcon
    city_centers,          \* self.city_centers
    pc,                    \* where schedule() is
    group,                 \* position of the (city, subcon) loops
    unassigned_sites,      \* schedule(): unassigned_sites
    pairs,                 \* schedule(): pairs
    paired_site_ids,       \* schedule(): paired_site_ids
    site_to_pair,          \* schedule(): site_to_pair
    current_date,          \* schedule(): current_date, the group's cursor
    steps,                 \* history: the assignment steps taken so far
    fp_sites,              \* a direct _find_all_pairs call: its sites argument
    fp_max_distance,       \* ... its max_distance argument
    fp_result,             \* ... its return value
    group_state,           \* schedule() with its groups in any order: the locals of each group
    summary,               \* the dictionary get_schedule_summary() returned
    start_text,            \* the start_date argument of __init__, as text
    csv_rows,              \* load_sites_from_csv: the rows the DictReader yields
    lineno,                \* load_sites_from_csv: the position of the row loop
    loaded,                \* load_sites_from_csv: sites
    dist_args,             \* a direct _haversine_distance call: lat1, lon1, lat2, lon2
    dist_result,           \* ... its return value, and that of the call with the points swapped
    previous_run           \* history: the sites as an earlier schedule() call returned them

vars == <<sites, initial_sites, start_date, self_current_date, max_pair_distance,
          sites_by_city_subcon, city_centers, pc, group, unassigned_sites,
          pairs, paired_site_ids, site_to_pair, current_date, steps,
          fp_sites, fp_max_distance, fp_result,
          group_state, summary, start_text, csv_rows, lineno, loaded,
          dist_args, dist_result, previous_run>>

scheduler_vars == <<initial_sites, start_date, self_current_date,
                    max_pair_distance, sites_by_city_subcon, city_centers>>

loop_vars == <<unassigned_sites, pairs, paired_site_ids, site_to_pair, current_date>>

fp_vars == <<fp_sites, fp_max_distance, fp_result>>

loader_vars == <<csv_rows, lineno, loaded>>

dist_vars == <<dist_args, dist_result>>

\* What schedule() and _find_all_pairs neither read nor write.
aux_vars == <<group_state, summary, start_text, loader_vars, dist_vars, previous_run>>

\* SiteScheduler(sites, start_date, max_pair_distance)
Construct(input, start, mpd) ==
    /\ sites = input
    /\ initial_sites = input
    /\ start_date = start
    /\ self_current_date = InitCurrentDate(start, Today)
    /\ max_pair_distance = InitMaxPairDistance(mpd)
    /\ sites_by_city_subcon = BuildGroups(input)
    /\ city_centers = BuildCenters(input)

\* Nothing summarised, loaded or measured yet.
AuxIdle ==
    /\ group_state = <<>>
    /\ summary = [called |-> FALSE]
    /\ start_text = <<>>
    /\ csv_rows = <<>>
    /\ lineno = 0
    /\ loaded = <<>>
    /\ dist_args = <<>>
    /\ dist_result = <<>>
    /\ previous_run = [called |-> FALSE]

LoopIdle ==
    /\ unassigned_sites = <<>>
    /\ pairs = <<>>
    /\ paired_site_ids = {}
    /\ site_to_pair = <<>>
    /\ current_date = 0
    /\ steps = <<>>

Init ==
    /\ \E input \in SeqsUpTo(SiteDomain, MaxSites),
          start \in {NoDate} \cup StartDates :
          Construct(input, start, NoDistance)
    /\ pc = "ready"
    /\ group = 1
    /\ LoopIdle
    /\ fp_sites = <<>>
    /\ fp_max_distance = NoDistance
    /\ fp_result = <<>>
    /\ AuxIdle

\* ------------------------------------------------------------- schedule()

Put(m, k, v) == [x \in (DOMAIN m) \cup {k} |-> IF x = k THEN v ELSE m[x]]

\* Drop that deletes no key.
DropNothing(m, ks) == m

\* del site_to_pair[...] for the keys that are present
Drop(m, ks) == [x \in (DOMAIN m) \ ks |-> m[x]]

\* The loop that fills site_to_pair from pairs.
RECURSIVE BuildSiteToPair(_, _, _, _)
BuildSiteToPair(tbl, ps, k, m) ==
    IF k > Len(ps) THEN m
    ELSE BuildSiteToPair(tbl, ps, k + 1,
             Put(Put(m, GetSiteId(tbl[ps[k][1]]), <<ps[k][2], ps[k][3]>>),
                 GetSiteId(tbl[ps[k][2]]), <<ps[k][1], ps[k][3]>>))

\* BuildPairedSiteIds that adds no identity.
NoPairedSiteIds(tbl, ps) == {}

\* paired_site_ids after the loop over pairs
BuildPairedSiteIds(tbl, ps) ==
    UNION {{GetSiteId(tbl[ps[k][1]]), GetSiteId(tbl[ps[k][2]])} : k \in DOMAIN ps}

\* Undated without the `if not s.date` filter.
UndatedOrNot(tbl, lst) == lst

\* unassigned_sites = [s for s in sites if not s.date]
Undated(tbl, lst) ==
    LET NoDateYet(i) == tbl[i].date = NoDate
    IN  SelectSeq(lst, NoDateYet)

\* The pairing of a group as schedule() calls it.
SchedulePairs(tbl, lst) == FindAllPairs(tbl, lst, ScheduleMaxDistance)

\* AssignDate writing the date of one site of the day only.
AssignDateToOne(tbl, who, date_str) ==
    [i \in DOMAIN tbl |->
        IF i \in who /\ \A j \in who : i <= j
        THEN [tbl[i] EXCEPT !.date = date_str,
                            !.team_index = IF @ = NoTeamIndex THEN 0 ELSE @]
        ELSE tbl[i]]

\* AssignDate that also renumbers the team of every site dated before.
AssignDateRenumbering(tbl, who, date_str) ==
    [i \in DOMAIN tbl |->
        IF i \in who
        THEN [tbl[i] EXCEPT !.date = date_str,
                            !.team_index = IF @ = NoTeamIndex THEN 0 ELSE @]
        ELSE IF tbl[i].team_index # NoTeamIndex
        THEN [tbl[i] EXCEPT !.team_index = @ + 1]
        ELSE tbl[i]]

\* site.date = date_str; if not hasattr(site, 'team_index'): site.team_index = 0
AssignDate(tbl, who, date_str) ==
    [i \in DOMAIN tbl |->
        IF i \in who
        THEN [tbl[i] EXCEPT !.date = date_str,
                            !.team_index = IF @ = NoTeamIndex THEN 0 ELSE @]
        ELSE tbl[i]]

\* Advance that leaves the cursor where it is.
AdvanceNot(date) == date

\* Advance that moves the cursor on odd day numbers only.
AdvanceEveryOtherStep(date) == IF date % 2 = 0 THEN date ELSE AddOneDay(date)

\* The amount by which one loop iteration moves the cursor.
Advance(date) == AddOneDay(date)

\* CursorAtGroupStart carrying the cursor of the previous group over.
CursorCarriedOver == IF steps = <<>> THEN self_current_date ELSE current_date

\* city_start_date = self.current_date; current_date = city_start_date
CursorAtGroupStart == self_current_date

\* A group with no undated site: `continue`.
SkipGroup ==
    /\ pc = "ready"
    /\ group <= Len(sites_by_city_subcon)
    /\ Undated(sites, sites_by_city_subcon[group].sites) = <<>>
    /\ group' = group + 1
    /\ UNCHANGED <<sites, scheduler_vars, pc, loop_vars, steps, fp_vars, aux_vars>>

\* A group with undated sites: lines 217-238, up to the while loop.
BeginGroup ==
    /\ pc = "ready"
    /\ group <= Len(sites_by_city_subcon)
    /\ \E un \in {Undated(sites, sites_by_city_subcon[group].sites)} :
       \E ps \in {SchedulePairs(sites, un)} :
           /\ un # <<>>
           /\ unassigned_sites' = un
           /\ pairs' = ps
           /\ paired_site_ids' = BuildPairedSiteIds(sites, ps)
           /\ site_to_pair' = BuildSiteToPair(sites, ps, 1, <<>>)
           /\ current_date' = CursorAtGroupStart
    /\ pc' = "loop"
    /\ UNCHANGED <<sites, scheduler_vars, group, steps, fp_vars, aux_vars>>

\* NearestFirst without the sort: the list as it is.
KeepOrder(tbl, centers, lst, city) == lst

\* unassigned_sites.sort(key=lambda s: self._distance_to_center(s, city))
NearestFirst(tbl, centers, lst, city) ==
    SortBy(lst, [i \in Range(lst) |-> DistanceToCenter(tbl, centers, i, city)])

\* The two list.remove calls of an iteration that dates `who`, on the sorted
\* list, with the sites as they are after the dates were written.
RemoveDated(dated, sorted, nearest_site, partner_site, both) ==
    LET k1 == FirstEqual(dated, sorted, nearest_site)
        l1 == IF k1 = 0 THEN sorted ELSE RemoveAt(sorted, k1)
        k2 == IF both THEN FirstEqual(dated, l1, partner_site) ELSE 1
        l2 == IF both /\ k2 # 0 THEN RemoveAt(l1, k2) ELSE l1
    IN  [raised |-> (k1 = 0 \/ k2 = 0), l1 |-> l1, l2 |-> l2]

\* The body of `while unassigned_sites`, lines 241-300, on a sorted list:
\* what it leaves in the sites and in the locals, the day_group it dated, the
\* branch of the if/else it took and whether a list.remove found no equal
\* element and raised ValueError.
LoopBodySorted(tbl, centers, city, sorted, pids, s2p, cur) ==
    LET nearest_site == sorted[1]
        nearest_site_id == GetSiteId(tbl[nearest_site])
        date_str == Strftime(cur)
        is_paired == nearest_site_id \in pids /\ nearest_site_id \in DOMAIN s2p
        partner_site == s2p[nearest_site_id][1]
        partner_site_id == GetSiteId(tbl[partner_site])
        both == is_paired /\ ListContains(tbl, sorted, partner_site)
        who == IF both THEN {nearest_site, partner_site} ELSE {nearest_site}
        dist1 == DistanceToCenter(tbl, centers, nearest_site, city)
        dist2 == DistanceToCenter(tbl, centers, partner_site, city)
        day_group == IF both
                     THEN (IF dist1 <= dist2
                           THEN <<nearest_site, partner_site>>
                           ELSE <<partner_site, nearest_site>>)
                     ELSE <<nearest_site>>
        gone == IF both THEN {nearest_site_id, partner_site_id}
                ELSE IF is_paired THEN {nearest_site_id} ELSE {}
        dated == AssignDate(tbl, who, date_str)
        rm == RemoveDated(dated, sorted, nearest_site,
                          IF both THEN partner_site ELSE nearest_site, both)
    IN  [sites |-> dated,
         center |-> IF city \in DOMAIN centers THEN centers[city] ELSE <<>>,
         date |-> date_str,
         day_group |-> day_group,
         branch |-> IF both THEN "pair"
                    ELSE IF is_paired THEN "partner_gone" ELSE "single",
         raised |-> rm.raised,
         unassigned_sites |-> IF rm.raised THEN rm.l1 ELSE rm.l2,
         paired_site_ids |-> IF rm.raised THEN pids ELSE pids \ gone,
         site_to_pair |-> IF rm.raised THEN s2p ELSE Drop(s2p, gone),
         current_date |-> IF rm.raised THEN cur ELSE Advance(cur)]

LoopBody(tbl, centers, city, un, pids, s2p, cur) ==
    LoopBodySorted(tbl, centers, city, NearestFirst(tbl, centers, un, city),
                   pids, s2p, cur)

\* One iteration of `while unassigned_sites`, lines 241-300; when it empties
\* the list the while loop ends and the next group is due.  A list.remove
\* that finds no equal element raises ValueError, which leaves schedule().
AssignStep ==
    /\ pc = "loop"
    /\ unassigned_sites # <<>>
    /\ \E r \in {LoopBody(sites, city_centers, sites_by_city_subcon[group].city,
                          unassigned_sites, paired_site_ids, site_to_pair,
                          current_date)} :
           /\ sites' = r.sites
           /\ steps' = Append(steps, [group |-> group, date |-> r.date,
                                      day_group |-> r.day_group,
                                      branch |-> r.branch,
                                      pairs |-> pairs,
                                      cursor |-> current_date,
                                      center |-> r.center])
           /\ unassigned_sites' = r.unassigned_sites
           /\ paired_site_ids' = r.paired_site_ids
           /\ site_to_pair' = r.site_to_pair
           /\ current_date' = r.current_date
           /\ pc' = IF r.raised THEN "ValueError"
                    ELSE IF r.unassigned_sites = <<>> THEN "ready" ELSE pc
           /\ group' = IF ~r.raised /\ r.unassigned_sites = <<>>
                       THEN group + 1 ELSE group
    /\ UNCHANGED <<scheduler_vars, pairs, fp_vars, aux_vars>>

\* return self.sites
Return ==
    /\ pc = "ready"
    /\ group > Len(sites_by_city_subcon)
    /\ pc' = "done"
    /\ UNCHANGED <<sites, scheduler_vars, group, loop_vars, steps, fp_vars, aux_vars>>

Next == SkipGroup \/ BeginGroup \/ AssignStep \/ Return

Spec == Init /\ [][Next]_vars

\* ------------------------------- a scheduler with a configured threshold

\* One group of undated sites, beside a site of another city that has a date.
ThresholdSiteDomain ==
    PairSiteDomain \cup {MkSite("a", 0, "c2", "s1", d) : d \in PreDates}

ThresholdInit ==
    /\ \E input \in SeqsUpTo(ThresholdSiteDomain, MaxSites),
          mpd \in {NoDistance} \cup Thresholds :
          Construct(input, NoDate, mpd)
    /\ pc = "ready"
    /\ group = 1
    /\ LoopIdle
    /\ fp_sites = <<>>
    /\ fp_max_distance = NoDistance
    /\ fp_result = <<>>
    /\ AuxIdle

ThresholdSpec == ThresholdInit /\ [][Next]_vars

\* ------------------------------------------- _find_all_pairs called directly


PairsInit ==
    /\ \E mpd \in {NoDistance} \cup Thresholds : Construct(<<>>, NoDate, mpd)
    /\ pc = "call"
    /\ group = 1
    /\ LoopIdle
    /\ fp_sites \in SeqsUpTo(PairSiteDomain, MaxPairSites)
    /\ fp_max_distance \in {NoDistance, ScheduleMaxDistance}
    /\ fp_result = <<>>
    /\ AuxIdle

\* pairs = s._find_all_pairs(sites, max_distance)
CallFindPairs ==
    /\ pc = "call"
    /\ pc' = "returned"
    /\ fp_result' = FindAllPairs(fp_sites, [i \in DOMAIN fp_sites |-> i],
                                 EffectiveMaxDistance(fp_max_distance, max_pair_distance))
    /\ UNCHANGED <<sites, scheduler_vars, group, loop_vars, steps,
                   fp_sites, fp_max_distance, aux_vars>>

PairsNext == CallFindPairs

PairsSpec == PairsInit /\ [][PairsNext]_vars

\* ------------------------------------------------ schedule() as a function

\* The while loop of one group, run to its end or to the ValueError.
RECURSIVE RunGroup(_, _, _, _, _, _, _)
RunGroup(tbl, centers, city, un, pids, s2p, cur) ==
    IF un = <<>> THEN [sites |-> tbl, raised |-> FALSE]
    ELSE LET r == LoopBody(tbl, centers, city, un, pids, s2p, cur)
         IN  IF r.raised THEN [sites |-> r.sites, raised |-> TRUE]
             ELSE RunGroup(r.sites, centers, city, r.unassigned_sites,
                           r.paired_site_ids, r.site_to_pair, r.current_date)

\* The two nested group loops over the groups `order` names, in that order,
\* every group starting at the cursor `start`.
RECURSIVE RunGroups(_, _, _, _, _)
RunGroups(tbl, centers, groups, order, start) ==
    IF order = <<>> THEN [sites |-> tbl, raised |-> FALSE]
    ELSE LET g == groups[Head(order)]
             un == Undated(tbl, g.sites)
             ps == SchedulePairs(tbl, un)
             r == RunGroup(tbl, centers, g.city, un, BuildPairedSiteIds(tbl, ps),
                           BuildSiteToPair(tbl, ps, 1, <<>>), start)
         IN  IF r.raised THEN r
             ELSE RunGroups(r.sites, centers, groups, Tail(order), start)

\* schedule() on the scheduler as constructed: the groups in dictionary order.
ScheduleInOrder ==
    RunGroups(initial_sites, city_centers, sites_by_city_subcon,
              [g \in DOMAIN sites_by_city_subcon |-> g], self_current_date)

\* ---------------------------------- schedule() with its groups in any order

\* The locals of a group that has not begun.
GroupNotBegun ==
    [pc |-> "ready", unassigned_sites |-> <<>>, pairs |-> <<>>,
     paired_site_ids |-> {}, site_to_pair |-> <<>>, current_date |-> 0]

AnyOrderInit ==
    /\ \E input \in SeqsUpTo(SiteDomain, MaxSites),
          start \in {NoDate} \cup StartDates :
          Construct(input, start, NoDistance)
    /\ pc = "any"
    /\ group = 1
    /\ LoopIdle
    /\ fp_sites = <<>>
    /\ fp_max_distance = NoDistance
    /\ fp_result = <<>>
    /\ group_state = [g \in DOMAIN sites_by_city_subcon |-> GroupNotBegun]
    /\ previous_run = [called |-> FALSE]
    /\ summary = [called |-> FALSE]
    /\ start_text = <<>>
    /\ csv_rows = <<>>
    /\ lineno = 0
    /\ loaded = <<>>
    /\ dist_args = <<>>
    /\ dist_result = <<>>

any_frame == <<scheduler_vars, group, loop_vars, fp_vars, summary, start_text,
               loader_vars, dist_vars, previous_run>>

\* Some group that has not begun has no undated site: `continue`.
AnySkipGroup ==
    /\ pc = "any"
    /\ \E g \in DOMAIN group_state :
          /\ group_state[g].pc = "ready"
          /\ Undated(sites, sites_by_city_subcon[g].sites) = <<>>
          /\ group_state' = [group_state EXCEPT ![g].pc = "finished"]
    /\ UNCHANGED <<sites, pc, steps, any_frame>>

\* Some group that has not begun runs lines 217-238.
AnyBeginGroup ==
    /\ pc = "any"
    /\ \E g \in DOMAIN group_state :
       \E un \in {Undated(sites, sites_by_city_subcon[g].sites)} :
       \E ps \in {SchedulePairs(sites, un)} :
          /\ group_state[g].pc = "ready"
          /\ un # <<>>
          /\ group_state' = [group_state EXCEPT ![g] =
                 [pc |-> "loop", unassigned_sites |-> un, pairs |-> ps,
                  paired_site_ids |-> BuildPairedSiteIds(sites, ps),
                  site_to_pair |-> BuildSiteToPair(sites, ps, 1, <<>>),
                  current_date |-> CursorAtGroupStart]]
    /\ UNCHANGED <<sites, pc, steps, any_frame>>

\* Some group that is in its while loop runs one iteration of it.
AnyAssignStep ==
    /\ pc = "any"
    /\ \E g \in DOMAIN group_state :
          /\ group_state[g].pc = "loop"
          /\ \E r \in {LoopBody(sites, city_centers, sites_by_city_subcon[g].city,
                                group_state[g].unassigned_sites,
                                group_state[g].paired_site_ids,
                                group_state[g].site_to_pair,
                                group_state[g].current_date)} :
                /\ sites' = r.sites
                /\ steps' = Append(steps, [group |-> g, date |-> r.date,
                                           day_group |-> r.day_group,
                                           branch |-> r.branch,
                                           pairs |-> group_state[g].pairs,
                                           cursor |-> group_state[g].current_date,
                                           center |-> r.center])
                /\ group_state' = [group_state EXCEPT ![g] =
                       [pc |-> IF r.unassigned_sites = <<>> /\ ~r.raised
                               THEN "finished" ELSE "loop",
                        unassigned_sites |-> r.unassigned_sites,
                        pairs |-> group_state[g].pairs,
                        paired_site_ids |-> r.paired_site_ids,
                        site_to_pair |-> r.site_to_pair,
                        current_date |-> r.current_date]]
                /\ pc' = IF r.raised THEN "ValueError" ELSE pc
    /\ UNCHANGED any_frame

\* Every group is finished: return self.sites
AnyReturn ==
    /\ pc = "any"
    /\ \A g \in DOMAIN group_state : group_state[g].pc = "finished"
    /\ pc' = "done"
    /\ UNCHANGED <<sites, group_state, steps, any_frame>>

AnyOrderNext == AnySkipGroup \/ AnyBeginGroup \/ AnyAssignStep \/ AnyReturn

AnyOrderSpec == AnyOrderInit /\ [][AnyOrderNext]_vars

\* ------------------------------------------------- get_schedule_summary()

\* d1 <= d2 on two date strings "YYYY-MM-DD": character by character, which
\* on zero-padded fields is field by field.
DateStringLeq(d1, d2) ==
    \/ d1[1] < d2[1]
    \/ d1[1] = d2[1] /\ d1[2] < d2[2]
    \/ d1[1] = d2[1] /\ d1[2] = d2[2] /\ d1[3] <= d2[3]

\* min(dates), max(dates)
MinDate(dates) == CHOOSE d \in dates : \A x \in dates : DateStringLeq(d, x)

MaxDate(dates) == CHOOSE d \in dates : \A x \in dates : DateStringLeq(x, d)

\* sorted(list(dates)) for a set of date strings
RECURSIVE SortedDates(_)
SortedDates(dates) ==
    IF dates = {} THEN <<>>
    ELSE <<MinDate(dates)>> \o SortedDates(dates \ {MinDate(dates)})

\* DateRange without the `if dates` guard.
DateRangeUnguarded(dates) ==
    IF dates = {} THEN [start |-> NoDate, end |-> NoDate]
    ELSE [start |-> MinDate(dates), end |-> MaxDate(dates)]

\* summary['date_range']: empty unless some site has a date.
DateRange(dates) ==
    IF dates = {} THEN <<>>
    ELSE [start |-> MinDate(dates), end |-> MaxDate(dates)]

\* The sites `if site.date` lets through.
WithDate(tbl) == {i \in DOMAIN tbl : tbl[i].date # NoDate}

\* ByCity counting every site of the city, dated or not.
ByCityOfAll(tbl) ==
    [c \in {tbl[i].city : i \in WithDate(tbl)} |->
        [count |-> Cardinality({i \in DOMAIN tbl : tbl[i].city = c})]]

\* summary['by_city']: an entry for each city with a dated site.
ByCity(tbl) ==
    [c \in {tbl[i].city : i \in WithDate(tbl)} |->
        [count |-> Cardinality({i \in WithDate(tbl) : tbl[i].city = c})]]

\* summary['by_subcon']: an entry for each subcontractor with a dated site.
BySubcon(tbl) ==
    [sc \in {tbl[i].subcon : i \in WithDate(tbl)} |->
        LET mine == {i \in WithDate(tbl) : tbl[i].subcon = sc}
        IN  [count |-> Cardinality(mine),
             dates |-> SortedDates({tbl[i].date : i \in mine})]]

GetScheduleSummary(tbl) ==
    [total_sites |-> Len(tbl),
     scheduled_sites |-> Cardinality(WithDate(tbl)),
     date_range |-> DateRange({tbl[i].date : i \in WithDate(tbl)}),
     by_subcon |-> BySubcon(tbl),
     by_city |-> ByCity(tbl)]

\* scheduler.get_schedule_summary(), called before schedule() or after it
\* returned or raised; the sites it read are kept beside the dictionary.
Summarise ==
    /\ pc \in {"ready", "done", "ValueError"}
    /\ pc = "ready" => group = 1
    /\ summary' = [called |-> TRUE, at |-> pc, sites |-> sites,
                   result |-> GetScheduleSummary(sites)]
    /\ UNCHANGED <<sites, scheduler_vars, pc, group, loop_vars, steps, fp_vars,
                   previous_run, group_state, start_text, loader_vars, dist_vars>>

SummaryNext == Next \/ Summarise

SummarySpec == Init /\ [][SummaryNext]_vars

\* ------------------------------------- __init__ on a start_date given as text

\* Largest number of Site records handed to a constructor whose start_date
\* is followed character by character.
MaxCtorSites == 1

\* A string is the sequence of its characters.
Digits == <<"0", "1", "2", "3", "4", "5", "6", "7", "8", "9">>

IsDigit(c) == \E n \in DOMAIN Digits : Digits[n] = c

DigitValue(c) == (CHOOSE n \in DOMAIN Digits : Digits[n] = c) - 1

\* int() of a string of digits
RECURSIVE Number(_)
Number(t) ==
    IF t = <<>> THEN 0
    ELSE 10 * Number(SubSeq(t, 1, Len(t) - 1)) + DigitValue(t[Len(t)])

\* The start_date arguments tried: the empty string and year, separator,
\* month, "-", day for a few well-formed and ill-formed choices of each.
YearTexts == {<<"2", "0", "2", "4">>, <<"2", "0", "2", "5">>, <<"0", "0", "0", "0">>,
              <<"2", "4">>, <<"2", "0", "2", "x">>}
MonthTexts == {<<"0", "2">>, <<"2">>, <<"1", "2">>, <<"1", "3">>, <<"0", "0">>, <<>>}
DayTexts == {<<"2", "8">>, <<"2", "9">>, <<"3", "0">>, <<"3", "1">>, <<"8">>,
             <<"0", "8">>, <<" ", "8">>, <<"0">>, <<"2", "8", "8">>, <<"8", "x">>, <<>>}
StartTexts ==
    {<<>>} \cup
    {y \o sep \o m \o <<"-">> \o d :
        y \in YearTexts, sep \in {<<"-">>, <<"/">>}, m \in MonthTexts, d \in DayTexts}

CtorSiteDomain ==
    {MkSite("a", 0, "c1", "s1", NoDate), MkSite("a", 4, "c2", "s1", NoDate)}

\* What strptime raises instead of returning: ValueError.
ParseFailed == <<0>>

\* The directive %m as the format's regular expression reads it:
\* 1[0-2] | 0[1-9] | [1-9]
MatchesMonth(t) ==
    \/ Len(t) = 2 /\ t[1] = "1" /\ t[2] \in {"0", "1", "2"}
    \/ Len(t) = 2 /\ t[1] = "0" /\ IsDigit(t[2]) /\ t[2] # "0"
    \/ Len(t) = 1 /\ IsDigit(t[1]) /\ t[1] # "0"

\* The directive %d: 3[0-1] | [1-2]\d | 0[1-9] | [1-9] | " "[1-9]
MatchesDay(t) ==
    \/ Len(t) = 2 /\ t[1] = "3" /\ t[2] \in {"0", "1"}
    \/ Len(t) = 2 /\ t[1] \in {"1", "2"} /\ IsDigit(t[2])
    \/ Len(t) = 2 /\ t[1] \in {"0", " "} /\ IsDigit(t[2]) /\ t[2] # "0"
    \/ Len(t) = 1 /\ IsDigit(t[1]) /\ t[1] # "0"

\* The lengths (month, day) with which the regular expression of the format
\* "%Y-%m-%d" matches a prefix of the text.
FormatMatches(t) ==
    {md \in {1, 2} \X {1, 2} :
        /\ Len(t) >= 6 + md[1] + md[2]
        /\ \A k \in 1..4 : IsDigit(t[k])
        /\ t[5] = "-"
        /\ MatchesMonth(SubSeq(t, 6, 5 + md[1]))
        /\ t[6 + md[1]] = "-"
        /\ MatchesDay(SubSeq(t, 7 + md[1], 6 + md[1] + md[2]))}

\* ValidDate without the calendar: any day up to 31 in any month.
AnyDayOfMonth(y, m, d) == y >= 1 /\ m \in 1..12 /\ d \in 1..31

\* The range checks of the date constructor: year 1..9999, a day of the month.
ValidDate(y, m, d) == y >= 1 /\ m \in 1..12 /\ d >= 1 /\ d <= DaysInMonth(y, m)

\* The digits of a day field, its leading blank dropped.
DayDigits(t) == IF t[1] = " " THEN Tail(t) ELSE t

\* datetime.strptime(text, "%Y-%m-%d") as far as the date: the match the
\* regular expression finds first (the longer month, then the longer day),
\* "unconverted data remains" when it ends before the text does, and the
\* range checks; the fields <<y, m, d>> or ParseFailed.
ParseDate(t) ==
    LET found == FormatMatches(t)
    IN  IF found = {} THEN ParseFailed
        ELSE LET md == CHOOSE x \in found :
                           \A o \in found : x[1] > o[1] \/ (x[1] = o[1] /\ x[2] >= o[2])
                 y == Number(SubSeq(t, 1, 4))
                 m == Number(SubSeq(t, 6, 5 + md[1]))
                 d == Number(DayDigits(SubSeq(t, 7 + md[1], 6 + md[1] + md[2])))
             IN  IF Len(t) # 6 + md[1] + md[2] THEN ParseFailed
                 ELSE IF ~ValidDate(y, m, d) THEN ParseFailed
                 ELSE <<y, m, d>>

\* Before SiteScheduler(sites, start_text) runs: no scheduler yet.
ConstructInit ==
    /\ pc = "new"
    /\ sites \in SeqsUpTo(CtorSiteDomain, MaxCtorSites)
    /\ initial_sites = sites
    /\ start_text \in StartTexts
    /\ start_date = NoDate
    /\ self_current_date = 0
    /\ max_pair_distance = NoDistance
    /\ sites_by_city_subcon = <<>>
    /\ city_centers = <<>>
    /\ group = 1
    /\ LoopIdle
    /\ fp_sites = <<>>
    /\ fp_max_distance = NoDistance
    /\ fp_result = <<>>
    /\ group_state = <<>>
    /\ previous_run = [called |-> FALSE]
    /\ summary = [called |-> FALSE]
    /\ csv_rows = <<>>
    /\ lineno = 0
    /\ loaded = <<>>
    /\ dist_args = <<>>
    /\ dist_result = <<>>

\* SiteScheduler(sites, start_text): __init__ as a whole.  A ValueError from
\* strptime leaves __init__ at line 46, before anything is built, and the
\* caller gets no object.
ConstructScheduler ==
    /\ pc = "new"
    /\ \E parsed \in {IF start_text = <<>> THEN Today ELSE ParseDate(start_text)} :
          IF parsed = ParseFailed
          THEN /\ pc' = "ValueError"
               /\ UNCHANGED scheduler_vars
          ELSE /\ pc' = "ready"
               /\ start_date' = IF start_text = <<>> THEN NoDate ELSE parsed
               /\ self_current_date' = Strptime(parsed)
               /\ max_pair_distance' = InitMaxPairDistance(NoDistance)
               /\ sites_by_city_subcon' = BuildGroups(sites)
               /\ city_centers' = BuildCenters(sites)
               /\ UNCHANGED initial_sites
    /\ UNCHANGED <<sites, group, loop_vars, steps, fp_vars, previous_run, group_state, summary,
                   start_text, loader_vars, dist_vars>>

ConstructNext == ConstructScheduler

ConstructSpec == ConstructInit /\ [][ConstructNext]_vars

\* --------------------------------------------------- load_sites_from_csv

\* Largest number of rows the DictReader yields.
MaxRows == 2

\* A row is the sequence of its fields, as text, under the header SiteName,
\* Latitude, Longitude, City, EasyAccess, Subcon, TeamNumber, Date.  A row
\* shorter than the header is a row whose trailing fields are missing: the
\* DictReader gives those keys the value None.
Header == <<"SiteName", "Latitude", "Longitude", "City", "EasyAccess",
            "Subcon", "TeamNumber", "Date">>

Column(name) == CHOOSE k \in DOMAIN Header : Header[k] = name

FullRows ==
    {<<n, lat, "0", "c1", "yes", "s1", team, date>> :
        n \in {"S1", " "}, lat \in {"4", "91", "x"},
        team \in {"", "2", "x"}, date \in {"", "2024-02-28"}}

RowDomain == {SubSeq(r, 1, n) : r \in FullRows, n \in 1..Len(Header)}

\* row.get(name, default) is None
IsNone(row, name) == Column(name) > Len(row)

\* row.get(name, default) when it is a string
Get(row, name) == row[Column(name)]

\* str.strip() on the field texts
Strip(t) == IF t = " " THEN "" ELSE t

\* float() of the field texts: the number, or ValueError for text that is
\* no number.
FloatTable == [t \in {"0", "4", "91"} |-> IF t = "0" THEN 0 ELSE IF t = "4" THEN 4 ELSE 91]

FloatRaises(t) == t \notin DOMAIN FloatTable

\* int() of the field texts
IntTable == [t \in {"2"} |-> 2]

IntRaises(t) == t \notin DOMAIN IntTable

\* -90 <= lat <= 90 and -180 <= lon <= 180
InRange(lat, lon) == -90 <= lat /\ lat <= 90 /\ -180 <= lon /\ lon <= 180

\* One iteration of the row loop, lines 357-386: "skip" (blank name),
\* "drop" (ValueError caught, or out of range), "append", or the exception
\* that no handler catches: float(None) raises TypeError and None.strip()
\* raises AttributeError, and the handler names ValueError and KeyError only.
RowOutcome(row) ==
    IF IsNone(row, "SiteName") THEN "AttributeError"
    ELSE IF Strip(Get(row, "SiteName")) = "" THEN "skip"
    ELSE IF IsNone(row, "Latitude") THEN "TypeError"
    ELSE IF FloatRaises(Get(row, "Latitude")) THEN "drop"
    ELSE IF IsNone(row, "Longitude") THEN "TypeError"
    ELSE IF FloatRaises(Get(row, "Longitude")) THEN "drop"
    ELSE IF ~InRange(FloatTable[Get(row, "Latitude")], FloatTable[Get(row, "Longitude")])
         THEN "drop"
    ELSE IF IsNone(row, "TeamNumber") THEN "AttributeError"
    ELSE IF Strip(Get(row, "TeamNumber")) # "" /\ IntRaises(Strip(Get(row, "TeamNumber")))
         THEN "drop"
    ELSE IF IsNone(row, "City") \/ IsNone(row, "EasyAccess") \/ IsNone(row, "Subcon")
            \/ IsNone(row, "Date")
         THEN "AttributeError"
    ELSE "append"

\* Site(site_name=..., ..., date=...) of a row that reaches line 373
RowSite(row) ==
    [site_name |-> Strip(Get(row, "SiteName")),
     latitude |-> FloatTable[Get(row, "Latitude")],
     longitude |-> FloatTable[Get(row, "Longitude")],
     city |-> Strip(Get(row, "City")),
     easy_access |-> Strip(Get(row, "EasyAccess")),
     subcon |-> Strip(Get(row, "Subcon")),
     team_number |-> IF Strip(Get(row, "TeamNumber")) = "" THEN 1
                     ELSE IntTable[Strip(Get(row, "TeamNumber"))],
     date |-> Strip(Get(row, "Date"))]

\* load_sites_from_csv(filepath) is called on a file with these rows.
LoaderInit ==
    /\ Construct(<<>>, NoDate, NoDistance)
    /\ pc = "loading"
    /\ group = 1
    /\ LoopIdle
    /\ fp_sites = <<>>
    /\ fp_max_distance = NoDistance
    /\ fp_result = <<>>
    /\ group_state = <<>>
    /\ previous_run = [called |-> FALSE]
    /\ summary = [called |-> FALSE]
    /\ start_text = <<>>
    /\ csv_rows \in SeqsUpTo(RowDomain, MaxRows)
    /\ lineno = 1
    /\ loaded = <<>>
    /\ dist_args = <<>>
    /\ dist_result = <<>>

\* for lineno, row in enumerate(reader, start=2): one row
LoadRow ==
    /\ pc = "loading"
    /\ lineno <= Len(csv_rows)
    /\ \E outcome \in {RowOutcome(csv_rows[lineno])} :
          /\ loaded' = IF outcome = "append"
                       THEN Append(loaded, RowSite(csv_rows[lineno])) ELSE loaded
          /\ pc' = IF outcome \in {"TypeError", "AttributeError"} THEN outcome ELSE pc
          /\ lineno' = IF outcome \in {"TypeError", "AttributeError"} THEN lineno
                       ELSE lineno + 1
    /\ UNCHANGED <<sites, scheduler_vars, group, loop_vars, steps, fp_vars,
                   previous_run, group_state, summary, start_text, csv_rows, dist_vars>>

\* return sites
LoadReturn ==
    /\ pc = "loading"
    /\ lineno > Len(csv_rows)
    /\ pc' = "loaded"
    /\ UNCHANGED <<sites, scheduler_vars, group, loop_vars, steps, fp_vars,
                   previous_run, group_state, summary, start_text, loader_vars, dist_vars>>

LoaderNext == LoadRow \/ LoadReturn

LoaderSpec == LoaderInit /\ [][LoaderNext]_vars

\* ------------------------------------ _haversine_distance called directly

\* Points in whole degrees.  The model follows the great circle where the
\* central angle is a whole number of degrees: two points of one meridian,
\* two points of the equator, and two antipodal points.
DistLats == {0 - 90, 0 - 8, 0, 8, 90}
DistLons == {0, 1, 180}

OnOneMeridian(lat1, lon1, lat2, lon2) == lon1 = lon2

OnEquator(lat1, lon1, lat2, lon2) == lat1 = 0 /\ lat2 = 0

Antipodal(lat1, lon1, lat2, lon2) == lat2 = 0 - lat1 /\ Abs(lon2 - lon1) = 180

\* Metres of great circle per degree of central angle: R * pi / 180.
MetresPerDegree == (EarthRadiusKm * 355 * 100) \div (113 * 18)

\* c = 2 * atan2(sqrt(a), sqrt(1 - a)), in degrees
CentralAngle(lat1, lon1, lat2, lon2) ==
    IF OnOneMeridian(lat1, lon1, lat2, lon2) THEN Abs(lat2 - lat1)
    ELSE IF OnEquator(lat1, lon1, lat2, lon2)
    THEN (IF Abs(lon2 - lon1) > 180 THEN 360 - Abs(lon2 - lon1) ELSE Abs(lon2 - lon1))
    ELSE 180

\* The latitudes x, in degrees, for which the double-precision sum
\* sin(x)**2 + cos(x) * cos(-x) * 1.0 is 1.0000000000000002: there a is
\* greater than 1 and 1 - a is negative.
RoundsAboveOne == {8, 12, 82}

\* What math.sqrt(1 - a) raises for a negative argument: ValueError.
MathDomainError == 0 - 1

\* a > 1 after rounding: two antipodal points off the equator and the poles
\* whose latitude is one of RoundsAboveOne.
AExceedsOne(lat1, lon1, lat2, lon2) ==
    /\ ~OnOneMeridian(lat1, lon1, lat2, lon2)
    /\ Antipodal(lat1, lon1, lat2, lon2)
    /\ Abs(lat1) \in RoundsAboveOne

\* _haversine_distance on whole degrees, the result in metres.
HaversineDegrees(lat1, lon1, lat2, lon2) ==
    IF AExceedsOne(lat1, lon1, lat2, lon2) THEN MathDomainError
    ELSE CentralAngle(lat1, lon1, lat2, lon2) * MetresPerDegree

DistanceInit ==
    /\ Construct(<<>>, NoDate, NoDistance)
    /\ pc = "measure"
    /\ group = 1
    /\ LoopIdle
    /\ fp_sites = <<>>
    /\ fp_max_distance = NoDistance
    /\ fp_result = <<>>
    /\ group_state = <<>>
    /\ previous_run = [called |-> FALSE]
    /\ summary = [called |-> FALSE]
    /\ start_text = <<>>
    /\ csv_rows = <<>>
    /\ lineno = 0
    /\ loaded = <<>>
    /\ dist_args \in {a \in DistLats \X DistLons \X DistLats \X DistLons :
                         \/ OnOneMeridian(a[1], a[2], a[3], a[4])
                         \/ OnEquator(a[1], a[2], a[3], a[4])
                         \/ Antipodal(a[1], a[2], a[3], a[4])}
    /\ dist_result = <<>>

\* d = s._haversine_distance(lat1, lon1, lat2, lon2), and the same call
\* with the two points swapped.
CallHaversine ==
    /\ pc = "measure"
    /\ pc' = "measured"
    /\ dist_result' = <<HaversineDegrees(dist_args[1], dist_args[2], dist_args[3], dist_args[4]),
                        HaversineDegrees(dist_args[3], dist_args[4], dist_args[1], dist_args[2])>>
    /\ UNCHANGED <<sites, scheduler_vars, group, loop_vars, steps, fp_vars,
                   previous_run, group_state, summary, start_text, loader_vars, dist_args>>

DistanceNext == CallHaversine

DistanceSpec == DistanceInit /\ [][DistanceNext]_vars

\* ------------------------------------------------ schedule() run to its end

\* A statement of schedule() is due: the call has neither returned nor raised.
\* In every such state a step of Next is possible and changes the state, so
\* this is ENABLED <<Next>>_vars.
StepDue == pc \in {"ready", "loop"}

\* WF_vars(Next), with ENABLED <<Next>>_vars written as StepDue: schedule()
\* is one sequential call, and while a statement of it is due the interpreter
\* executes it.
WeakFairness == ([]<>~StepDue) \/ ([]<><<Next>>_vars)

\* The run under that fairness.  WF_vars(Return) is a consequence of it,
\* stated for the last statement by itself: once `return self.sites` is due
\* it is the only step that is.
FairSpec == Spec /\ WeakFairness /\ WF_vars(Return)

\* ------------------------------------------------- schedule() called again

\* scheduler.schedule() once more, on the scheduler whose first call has
\* returned or has raised: the loops start over on self.sites_by_city_subcon.
ScheduleAgain ==
    /\ pc \in {"done", "ValueError"}
    /\ ~previous_run.called
    /\ previous_run' = [called |-> TRUE, raised |-> (pc = "ValueError"),
                        fresh |-> FALSE, sites |-> sites]
    /\ pc' = "ready"
    /\ group' = 1
    /\ UNCHANGED <<sites, scheduler_vars, loop_vars, steps, fp_vars, group_state,
                   summary, start_text, loader_vars, dist_vars>>

\* SiteScheduler(sites, start_date).schedule() on the list a call returned.
ScheduleAfresh ==
    /\ pc = "done"
    /\ ~previous_run.called
    /\ previous_run' = [called |-> TRUE, raised |-> FALSE,
                        fresh |-> TRUE, sites |-> sites]
    /\ \E start \in {NoDate} \cup StartDates :
          /\ start_date' = start
          /\ self_current_date' = InitCurrentDate(start, Today)
    /\ initial_sites' = sites
    /\ max_pair_distance' = InitMaxPairDistance(NoDistance)
    /\ sites_by_city_subcon' = BuildGroups(sites)
    /\ city_centers' = BuildCenters(sites)
    /\ pc' = "ready"
    /\ group' = 1
    /\ UNCHANGED <<sites, loop_vars, steps, fp_vars, group_state,
                   summary, start_text, loader_vars, dist_vars>>

AgainNext == Next \/ ScheduleAgain \/ ScheduleAfresh

AgainSpec == Init /\ [][AgainNext]_vars


\* ================================================================ claims

DistinctKeys ==
    \A i, j \in DOMAIN sites :
        i # j => GetSiteId(sites[i]) # GetSiteId(sites[j])

PreDated(i) == initial_sites[i].date # NoDate

\* The configured start date as a date string.
StartString == IF start_date = NoDate THEN Today ELSE start_date

\* The calendar day after a date string.
NextDay(d) ==
    IF d[3] < DaysInMonth(d[1], d[2]) THEN <<d[1], d[2], d[3] + 1>>
    ELSE IF d[2] < 12 THEN <<d[1], d[2] + 1, 1>>
    ELSE <<d[1] + 1, 1, 1>>

RECURSIVE PlusDays(_, _)
PlusDays(d, n) == IF n = 0 THEN d ELSE NextDay(PlusDays(d, n - 1))

\* The number of steps of the same group before step k.
StepIndex(k) == Cardinality({h \in 1..(k - 1) : steps[h].group = steps[k].group})

GroupsOf(tbl) == {<<tbl[i].city, tbl[i].subcon>> : i \in DOMAIN tbl}

\* C1: after schedule() returns every site has a non-empty date, for any
\* collection with pairwise distinct (name, latitude, longitude) keys; on
\* such a collection schedule() does not raise.
C1_EverySiteDated ==
    DistinctKeys =>
        /\ pc # "ValueError"
        /\ pc = "done" => \A i \in DOMAIN sites : sites[i].date # NoDate

\* C1 witness: a finished run over three sites with distinct keys in three
\* groups of two cities, one of them dated beforehand.
C1_Witness ==
    /\ pc = "done"
    /\ DistinctKeys
    /\ Len(sites) = 3
    /\ Cardinality(GroupsOf(sites)) = 3
    /\ \E i \in DOMAIN sites : PreDated(i)
    /\ \E i \in DOMAIN sites : ~PreDated(i) /\ sites[i].date # NoDate

\* C2: both sites of every pair the pairing selects for a group get the same
\* date: a selected pair is never split and neither member is dated alone.
C2_PairsShareDate ==
    \A k \in DOMAIN pairs : sites[pairs[k][1]].date = sites[pairs[k][2]].date

\* C3: the i-th assignment step of a group (i = 0, 1, ...) assigns the date
\* start_date + i days to the one or two sites it places.
C3_StepDates ==
    \A k \in DOMAIN steps :
        /\ steps[k].date = PlusDays(StartString, StepIndex(k))
        /\ \A s \in Range(steps[k].day_group) : sites[s].date = steps[k].date

\* C3 witness: a group whose first step placed two sites and whose second
\* step placed one, on the following day.
C3_Witness ==
    \E k \in DOMAIN steps :
        /\ k > 1
        /\ steps[k].group = steps[k - 1].group
        /\ Len(steps[k - 1].day_group) = 2
        /\ Len(steps[k].day_group) = 1
        /\ steps[k].date = NextDay(steps[k - 1].date)
        /\ pc = "done"

\* C4: every group with an undated site starts its own cursor at the
\* configured start date, whatever groups were scheduled before it.
C4_GroupsStartAtStartDate ==
    /\ \A k \in DOMAIN steps : StepIndex(k) = 0 => steps[k].date = StartString
    /\ (pc = "loop" /\ \A k \in DOMAIN steps : steps[k].group # group)
           => Strftime(current_date) = StartString

\* C4 witness: three groups (two of one city, two of one subcontractor) that
\* each assigned the start date at their first step.
C4_Witness ==
    /\ pc = "done"
    /\ Len(steps) = 3
    /\ Cardinality({steps[k].group : k \in DOMAIN steps}) = 3
    /\ \A k \in DOMAIN steps : steps[k].date = StartString

\* C5: a site that had a date at construction keeps it, is never in the
\* unassigned pool, is never paired and never takes part in a step.
C5_PreDatedUntouched ==
    \A i \in DOMAIN sites :
        PreDated(i) =>
            /\ sites[i] = initial_sites[i]
            /\ i \notin Range(unassigned_sites)
            /\ \A k \in DOMAIN pairs : i # pairs[k][1] /\ i # pairs[k][2]
            /\ \A id \in DOMAIN site_to_pair : site_to_pair[id][1] # i
            /\ \A k \in DOMAIN steps : i \notin Range(steps[k].day_group)

\* C5 witness: a finished run in which a group held a pre-dated site beside
\* two sites that were paired and dated.
C5_Witness ==
    /\ pc = "done"
    /\ \E i \in DOMAIN sites :
          /\ PreDated(i)
          /\ \E k \in DOMAIN steps :
                /\ Len(steps[k].day_group) = 2
                /\ sites[steps[k].day_group[1]].city = sites[i].city
                /\ sites[steps[k].day_group[1]].subcon = sites[i].subcon
                /\ steps[k].date # sites[i].date

\* C6: schedule() runs to completion without raising on every collection of
\* Site records, records that share name and coordinates included.
C6_NeverRaises == pc # "ValueError"

\* The threshold a direct _find_all_pairs call works with.
FpMax == EffectiveMaxDistance(fp_max_distance, max_pair_distance)

\* The pairs of distinct input sites within the threshold.
FpNear ==
    {ij \in (DOMAIN fp_sites) \X (DOMAIN fp_sites) :
        ij[1] < ij[2] /\ SiteDistance(fp_sites, ij[1], ij[2]) <= FpMax}

PairIds(tbl, p) == {GetSiteId(tbl[p[1]]), GetSiteId(tbl[p[2]])}

SitesDisjoint(M) == \A p, q \in M : p # q => {p[1], p[2]} \cap {q[1], q[2]} = {}

IdsDisjoint(tbl, M) ==
    \A p, q \in M : p # q => PairIds(tbl, p) \cap PairIds(tbl, q) = {}

\* C7: schedule() pairs with the threshold the scheduler was constructed
\* with: a step never places two sites farther apart than max_pair_distance,
\* and two sites that find_pairs selects under it get the same date.
C7_ConfiguredThresholdUsed ==
    /\ \A k \in DOMAIN steps :
          Len(steps[k].day_group) = 2 =>
              SiteDistance(sites, steps[k].day_group[1], steps[k].day_group[2])
                  <= max_pair_distance
    /\ pc = "done" =>
          \A g \in DOMAIN sites_by_city_subcon :
              LET ps == FindAllPairs(initial_sites,
                            Undated(initial_sites, sites_by_city_subcon[g].sites),
                            max_pair_distance)
              IN  \A k \in DOMAIN ps :
                      sites[ps[k][1]].date = sites[ps[k][2]].date

\* C8: in the list find_pairs returns no site identity, and no site, appears
\* in more than one pair.
C8_PairsDisjoint ==
    pc = "returned" =>
        \A k, h \in DOMAIN fp_result :
            k # h =>
                /\ PairIds(fp_sites, fp_result[k]) \cap PairIds(fp_sites, fp_result[h]) = {}
                /\ {fp_result[k][1], fp_result[k][2]}
                       \cap {fp_result[h][1], fp_result[h][2]} = {}

\* C8 witness: two pairs were returned and a third candidate, which shares
\* a site with one of them, was not.
C8_Witness ==
    /\ pc = "returned"
    /\ Len(fp_result) = 2
    /\ Cardinality(FpNear) > 2

\* C9: every pair find_pairs returns holds two different sites of the input
\* list at most max_distance apart, with their distance recorded; a site
\* farther than max_distance from every other site is in no pair.
C9_PairsWithinThreshold ==
    pc = "returned" =>
        /\ \A k \in DOMAIN fp_result :
              /\ fp_result[k][1] \in DOMAIN fp_sites
              /\ fp_result[k][2] \in DOMAIN fp_sites
              /\ fp_result[k][1] # fp_result[k][2]
              /\ fp_result[k][3] = SiteDistance(fp_sites, fp_result[k][1], fp_result[k][2])
              /\ fp_result[k][3] <= FpMax
        /\ \A i \in DOMAIN fp_sites :
              (\A j \in DOMAIN fp_sites :
                   j # i => SiteDistance(fp_sites, i, j) > FpMax)
              => \A k \in DOMAIN fp_result :
                     i # fp_result[k][1] /\ i # fp_result[k][2]

\* C9 witness: a pair of sites some way apart was returned and another site,
\* too far from every site, was left out.
C9_Witness ==
    /\ pc = "returned"
    /\ \E k \in DOMAIN fp_result : fp_result[k][3] > 0
    /\ \E i \in DOMAIN fp_sites :
          \A j \in DOMAIN fp_sites : j # i => SiteDistance(fp_sites, i, j) > FpMax

RunOver == pc \in {"done", "ValueError"}

\* C11: the final date of every site is the same whatever order the groups
\* are processed in, any interleaving of the steps of different groups
\* included: when the run is over every site has the date that schedule(),
\* taking the groups one after the other in dictionary order, gives it.
C11_AnyOrderSameDates ==
    RunOver => \A i \in DOMAIN sites : sites[i].date = ScheduleInOrder.sites[i].date

\* The same for collections with pairwise distinct keys.
AnyOrderSameDatesDistinctKeys == DistinctKeys => C11_AnyOrderSameDates

\* The sequential schedule() ends with the sites ScheduleInOrder computes.
ScheduleIsScheduleInOrder ==
    RunOver => sites = ScheduleInOrder.sites /\ (pc = "ValueError") = ScheduleInOrder.raised

\* The number of assignment steps that dated site i.
TimesDated(i) == Cardinality({k \in DOMAIN steps : i \in Range(steps[k].day_group)})

SitesOfCity(tbl, c) ==
    LET InCity(i) == tbl[i].city = c
    IN  SelectSeq([i \in 1..Len(tbl) |-> i], InCity)

\* C13: the centre of each city is the mean of all sites the scheduler was
\* constructed with in that city, whatever their subcontractor and whether
\* dated or not; schedule() never changes it, and every step orders by it;
\* schedule() leaves the grouping, the name, coordinates, city and
\* subcontractor of every site and the configured start date as they were.
C13_CentersAndGroupingFixed ==
    /\ DOMAIN city_centers = {initial_sites[i].city : i \in DOMAIN initial_sites}
    /\ \A c \in DOMAIN city_centers :
          LET members == SitesOfCity(initial_sites, c)
          IN  /\ city_centers[c][1] * Len(members) =
                     SumSeq([k \in DOMAIN members |-> Fine(initial_sites[members[k]].latitude)])
              /\ city_centers[c][2] * Len(members) =
                     SumSeq([k \in DOMAIN members |-> Fine(initial_sites[members[k]].longitude)])
    /\ \A k \in DOMAIN steps :
          steps[k].center = city_centers[sites_by_city_subcon[steps[k].group].city]
    /\ \A k, h \in DOMAIN steps :
          sites_by_city_subcon[steps[k].group].city = sites_by_city_subcon[steps[h].group].city
              => steps[k].center = steps[h].center
    /\ \A i \in DOMAIN sites :
          /\ GetSiteId(sites[i]) = GetSiteId(initial_sites[i])
          /\ sites[i].city = initial_sites[i].city
          /\ sites[i].subcon = initial_sites[i].subcon
          /\ \E g \in DOMAIN sites_by_city_subcon :
                /\ sites_by_city_subcon[g].city = sites[i].city
                /\ sites_by_city_subcon[g].subcon = sites[i].subcon
                /\ i \in Range(sites_by_city_subcon[g].sites)
    /\ \A g \in DOMAIN sites_by_city_subcon :
          \A i \in Range(sites_by_city_subcon[g].sites) :
              /\ initial_sites[i].city = sites_by_city_subcon[g].city
              /\ initial_sites[i].subcon = sites_by_city_subcon[g].subcon
    /\ self_current_date = Strptime(StartString)

\* C13 witness: a finished run of a city with a pre-dated site in which a
\* group took two steps; at its last step the centre was neither the mean of
\* the sites that came undated nor that of the sites still undated.
C13_Witness ==
    /\ pc = "done"
    /\ \E k \in DOMAIN steps :
          /\ k > 1
          /\ steps[k].group = steps[k - 1].group
          /\ steps[k].center = steps[k - 1].center
          /\ \E i \in DOMAIN sites :
                /\ PreDated(i)
                /\ sites[i].city = sites_by_city_subcon[steps[k].group].city
          /\ steps[k].center # BuildCentersOfUndated(initial_sites)[sites_by_city_subcon[steps[k].group].city]
          /\ steps[k].center[1] # Fine(sites[steps[k].day_group[1]].latitude)

\* The groups whose sites all had a date at construction.
AllPreDated(g) == \A i \in Range(sites_by_city_subcon[g].sites) : PreDated(i)

\* C14: on an empty collection schedule() does nothing and returns the empty
\* collection, and the summary reports total_sites = 0, scheduled_sites = 0
\* and no date_range; a group whose sites all have a date is passed over
\* without an error, without a step and without a write to its sites.
C14_EmptyAndSkipped ==
    /\ initial_sites = <<>> =>
          /\ pc # "ValueError"
          /\ sites = <<>>
          /\ steps = <<>>
          /\ summary.called =>
                /\ summary.result.total_sites = 0
                /\ summary.result.scheduled_sites = 0
                /\ DOMAIN summary.result.date_range = {}
    /\ \A g \in DOMAIN sites_by_city_subcon :
          AllPreDated(g) =>
              /\ \A k \in DOMAIN steps : steps[k].group # g
              /\ \A i \in Range(sites_by_city_subcon[g].sites) : sites[i] = initial_sites[i]
              /\ ~(group = g /\ pc \in {"loop", "ValueError"})

\* C14 witness: schedule() has returned on the empty collection and the
\* summary was taken after it.
C14_Witness ==
    /\ initial_sites = <<>>
    /\ pc = "done"
    /\ summary.called
    /\ summary.at = "done"

RECURSIVE SumCounts(_, _)
SumCounts(f, keys) ==
    IF keys = {} THEN 0
    ELSE LET k == CHOOSE x \in keys : TRUE
         IN  f[k].count + SumCounts(f, keys \ {k})

\* C15: in a summary, whenever it is taken, scheduled_sites is the number of
\* sites with a date and at most total_sites; the per-city counts and the
\* per-subcontractor counts each add up to scheduled_sites; the dates listed
\* for a subcontractor are strictly ascending and each is the date of one of
\* its sites.
C15_SummaryCounts ==
    summary.called =>
        LET r == summary.result
            tbl == summary.sites
        IN  /\ r.total_sites = Len(tbl)
            /\ r.scheduled_sites = Cardinality({i \in DOMAIN tbl : tbl[i].date # NoDate})
            /\ r.scheduled_sites <= r.total_sites
            /\ SumCounts(r.by_city, DOMAIN r.by_city) = r.scheduled_sites
            /\ SumCounts(r.by_subcon, DOMAIN r.by_subcon) = r.scheduled_sites
            /\ \A sc \in DOMAIN r.by_subcon :
                  LET ds == r.by_subcon[sc].dates
                  IN  /\ \A k \in DOMAIN ds :
                            \E i \in DOMAIN tbl : tbl[i].subcon = sc /\ tbl[i].date = ds[k]
                      /\ \A k \in 1..(Len(ds) - 1) :
                            DateStringLeq(ds[k], ds[k + 1]) /\ ds[k] # ds[k + 1]

\* C15 witness: a summary taken after schedule() returned, over two cities,
\* with an undated-at-first subcontractor that has two dates, the later one
\* on a site that comes first in the collection.
C15_Witness ==
    /\ summary.called
    /\ summary.at = "done"
    /\ Cardinality(DOMAIN summary.result.by_city) = 2
    /\ \E sc \in DOMAIN summary.result.by_subcon :
          /\ Len(summary.result.by_subcon[sc].dates) = 2
          /\ \E i, j \in DOMAIN sites :
                /\ i < j
                /\ sites[i].subcon = sc /\ sites[j].subcon = sc
                /\ sites[i].date = summary.result.by_subcon[sc].dates[2]
                /\ sites[j].date = summary.result.by_subcon[sc].dates[1]

\* A summary taken before schedule() ran, over a pre-dated site and an
\* undated one.
SummaryBeforeSchedule ==
    /\ summary.called
    /\ summary.at = "ready"
    /\ summary.result.scheduled_sites = 1
    /\ summary.result.total_sites = 2

\* Two digits for a number below 100.
TwoDigits(n) == <<Digits[(n \div 10) + 1], Digits[(n % 10) + 1]>>

\* The text is a calendar date written YYYY-MM-DD.
IsIsoDate(t) ==
    /\ Len(t) = 10
    /\ \A k \in 1..4 : IsDigit(t[k])
    /\ Number(SubSeq(t, 1, 4)) >= 1
    /\ \E m \in 1..12 :
       \E d \in 1..DaysInMonth(Number(SubSeq(t, 1, 4)), m) :
           SubSeq(t, 5, 10) = <<"-">> \o TwoDigits(m) \o <<"-">> \o TwoDigits(d)

\* The text is a calendar date written as the format %Y-%m-%d accepts it:
\* four digits of year, then month and day with or without the leading
\* zero, the day of one digit also with a leading blank.
IsFormatDate(t) ==
    /\ Len(t) >= 4
    /\ \A k \in 1..4 : IsDigit(t[k])
    /\ Number(SubSeq(t, 1, 4)) >= 1
    /\ \E m \in 1..12 :
       \E d \in 1..DaysInMonth(Number(SubSeq(t, 1, 4)), m) :
       \E mt \in {TwoDigits(m)} \cup (IF m < 10 THEN {<<Digits[m + 1]>>} ELSE {}) :
       \E dt \in {TwoDigits(d)}
                 \cup (IF d < 10 THEN {<<Digits[d + 1]>>, <<" ", Digits[d + 1]>>} ELSE {}) :
           SubSeq(t, 5, Len(t)) = <<"-">> \o mt \o <<"-">> \o dt

\* The constructor call ended with a parse error and built nothing.
ConstructFailed ==
    /\ pc = "ValueError"
    /\ sites_by_city_subcon = <<>>
    /\ city_centers = <<>>
    /\ self_current_date = 0

\* C16 as stated: for every start_date string that is not a date written
\* YYYY-MM-DD the constructor call fails with a parse error and no scheduler,
\* with groups or centres built, results.
C16_MalformedStartDateFails ==
    (pc # "new" /\ ~IsIsoDate(start_text)) => ConstructFailed

\* C16 as amended: for every non-empty start_date string that the format
\* %Y-%m-%d does not accept the constructor call fails with a parse error
\* and builds nothing; the empty string counts as no start_date, and the
\* scheduler is built with today's date; for an accepted string the
\* scheduler is built with that date.
C16_UnmatchedStartDateFails ==
    pc # "new" =>
        /\ (start_text # <<>> /\ ~IsFormatDate(start_text)) => ConstructFailed
        /\ start_text = <<>> => (pc = "ready" /\ Strftime(self_current_date) = Today)
        /\ IsFormatDate(start_text) => pc = "ready"
        /\ IsIsoDate(start_text) =>
              LET d == Strftime(self_current_date)
              IN  start_text = <<Digits[(d[1] \div 1000) + 1], Digits[((d[1] \div 100) % 10) + 1]>>
                               \o TwoDigits(d[1] % 100) \o <<"-">> \o TwoDigits(d[2])
                               \o <<"-">> \o TwoDigits(d[3])
        /\ pc = "ready" =>
              /\ sites_by_city_subcon = BuildGroups(sites)
              /\ DOMAIN city_centers = {sites[i].city : i \in DOMAIN sites}

\* C16 witness: the constructor was called with 29 February of a year that
\* is not a leap year, and on a site, and failed.
C16_Witness ==
    /\ ConstructFailed
    /\ start_text = <<"2", "0", "2", "5", "-", "0", "2", "-", "2", "9">>
    /\ sites # <<>>

\* A row with every field present, a name, numeric coordinates in range and
\* a TeamNumber that is blank or a number.
WellFormedRow(row) ==
    /\ Len(row) = Len(Header)
    /\ row[1] \notin {"", " "}
    /\ row[2] \in {"0", "4"}
    /\ row[3] \in {"0", "4"}
    /\ row[7] \in {"", "2"}

\* C17: load_sites_from_csv never fails on a malformed row: rows with a
\* blank name, non-numeric or out-of-range coordinates or missing trailing
\* fields are dropped and the well-formed rows are returned in input order,
\* with team_number 1 for a blank TeamNumber and the Date passed through.
C17_BadRowsDroppedNeverFatal ==
    /\ pc \notin {"TypeError", "AttributeError"}
    /\ pc = "loaded" =>
          LET good == SelectSeq(csv_rows, WellFormedRow)
          IN  /\ Len(loaded) = Len(good)
              /\ \A k \in DOMAIN good :
                    /\ loaded[k].site_name = good[k][1]
                    /\ loaded[k].team_number = (IF good[k][7] = "" THEN 1 ELSE 2)
                    /\ loaded[k].date = good[k][8]

\* The same for files in which no row lacks a field.
BadRowsDroppedWhenNoFieldIsMissing ==
    (\A k \in DOMAIN csv_rows : Len(csv_rows[k]) = Len(Header))
        => C17_BadRowsDroppedNeverFatal

\* C18: for all valid coordinates the distance function returns a distance
\* that is the same with the two points swapped, zero for identical
\* coordinates and never negative, and distance(0, 0, 0, 1) is 111.195 km
\* within a relative tolerance of 1e-3.
C18_DistanceContract ==
    pc = "measured" =>
        /\ dist_result[1] # MathDomainError
        /\ dist_result[1] = dist_result[2]
        /\ dist_result[1] >= 0
        /\ (dist_args[1] = dist_args[3] /\ dist_args[2] = dist_args[4]) => dist_result[1] = 0
        /\ dist_args = <<0, 0, 0, 1>> => Abs(dist_result[1] - 111195) * 1000 <= 111195

\* The same for pairs of points that are not antipodal.
DistanceContractOffAntipodes ==
    ~Antipodal(dist_args[1], dist_args[2], dist_args[3], dist_args[4])
        => C18_DistanceContract

\* The distance from site i to the centre of the city of step k's group.
CenterDistance(k, i) ==
    DistanceToCenter(sites, city_centers, i, sites_by_city_subcon[steps[k].group].city)

\* C19: every step takes the undated site of its group nearest to the city
\* centre, so a group is visited from the centre outwards: the site a step
\* selects is no farther from the centre than any site of the group still
\* undated, and of two steps of a group the earlier one dated a site that is
\* no farther from the centre than every site the later one dated.
C19_NearestFirst ==
    /\ \A k, h \in DOMAIN steps :
          (k < h /\ steps[k].group = steps[h].group) =>
              \E i \in Range(steps[k].day_group) :
                  \A j \in Range(steps[h].day_group) :
                      CenterDistance(k, i) <= CenterDistance(h, j)
    /\ \A k \in DOMAIN steps :
          (pc = "loop" /\ steps[k].group = group) =>
              \E i \in Range(steps[k].day_group) :
                  \A j \in Range(unassigned_sites) :
                      CenterDistance(k, i) <= CenterDistance(k, j)

\* C19 witness: a finished group of three sites whose nearest site came
\* last in the input and was dated first, a day before a site farther out.
C19_Witness ==
    /\ pc = "done"
    /\ Len(steps) >= 2
    /\ steps[1].group = steps[2].group
    /\ steps[1].day_group[1] = 3
    /\ \E j \in Range(steps[2].day_group) :
          /\ j < 3
          /\ CenterDistance(1, 3) < CenterDistance(2, j)
    /\ steps[1].date # steps[2].date

\* Candidate c comes before candidate d in the reference order: ascending
\* by distance, ties in generation order of the index pairs (i, j).
RefBefore(c, d) ==
    LET dc == SiteDistance(fp_sites, c[1], c[2])
        dd == SiteDistance(fp_sites, d[1], d[2])
    IN  \/ dc < dd
        \/ dc = dd /\ (c[1] < d[1] \/ (c[1] = d[1] /\ c[2] < d[2]))

\* The candidates (i, j), i < j, within the threshold, in reference order.
RefSorted ==
    [r \in 1..Cardinality(FpNear) |->
        CHOOSE c \in FpNear : Cardinality({d \in FpNear : RefBefore(d, c)}) = r - 1]

\* The reference scan: accept a candidate if and only if neither of its
\* sites was consumed by a candidate accepted before it.
RECURSIVE RefScan(_, _, _, _)
RefScan(sorted, k, consumed, accepted) ==
    IF k > Len(sorted) THEN accepted
    ELSE IF sorted[k][1] \notin consumed /\ sorted[k][2] \notin consumed
    THEN RefScan(sorted, k + 1, consumed \cup {sorted[k][1], sorted[k][2]},
                 Append(accepted, <<sorted[k][1], sorted[k][2],
                                    SiteDistance(fp_sites, sorted[k][1], sorted[k][2])>>))
    ELSE RefScan(sorted, k + 1, consumed, accepted)

RefGreedy == RefScan(RefSorted, 1, {}, <<>>)

\* C20: find_pairs returns exactly the result of the reference greedy
\* (candidates i < j within max_distance, sorted ascending by distance with
\* ties in generation order, scanned accepting a candidate if and only if
\* neither of its sites was consumed by an earlier accepted candidate);
\* every candidate it rejects shares a site with a returned pair of no
\* greater distance, and the first candidate in sorted order is returned.
C20_ReferenceGreedy ==
    pc = "returned" =>
        /\ fp_result = RefGreedy
        /\ \A c \in FpNear :
              (\A k \in DOMAIN fp_result : <<fp_result[k][1], fp_result[k][2]>> # c) =>
                  \E k \in DOMAIN fp_result :
                      /\ {fp_result[k][1], fp_result[k][2]} \cap {c[1], c[2]} # {}
                      /\ fp_result[k][3] <= SiteDistance(fp_sites, c[1], c[2])
        /\ FpNear # {} =>
              (fp_result # <<>> /\ <<fp_result[1][1], fp_result[1][2]>> = RefSorted[1])

\* The same for lists of sites with pairwise distinct keys.
ReferenceGreedyOnDistinctKeys ==
    (\A i, j \in DOMAIN fp_sites :
         i # j => GetSiteId(fp_sites[i]) # GetSiteId(fp_sites[j]))
        => C20_ReferenceGreedy

\* The sites of group g that schedule() has dated.
EngineDated(g) ==
    {i \in Range(sites_by_city_subcon[g].sites) :
        ~PreDated(i) /\ sites[i].date # NoDate}

\* i and j are the two members of a pair the pairing selected for group g.
SelectedPair(g, i, j) ==
    \E k \in DOMAIN steps :
        /\ steps[k].group = g
        /\ \E q \in DOMAIN steps[k].pairs :
              {i, j} = {steps[k].pairs[q][1], steps[k].pairs[q][2]}

\* C21: within a group, every date the engine assigns is held by exactly one
\* or exactly two of the sites the engine schedules in that group, never by
\* three or more, and two such sites share a date only if the pairing
\* selected them as a pair.
C21_OneOrTwoPerDate ==
    \A k \in DOMAIN steps :
        LET g == steps[k].group
            holders == {i \in EngineDated(g) : sites[i].date = steps[k].date}
        IN  /\ Cardinality(holders) \in {1, 2}
            /\ \A i, j \in holders : i # j => SelectedPair(g, i, j)

\* C21 witness: a finished group in which three sites hold the start date,
\* one of them dated beforehand and the other two a pair the engine placed.
C21_Witness ==
    /\ pc = "done"
    /\ \E g \in DOMAIN sites_by_city_subcon :
          /\ Cardinality(EngineDated(g)) = 2
          /\ \E i, j \in EngineDated(g) : i # j /\ SelectedPair(g, i, j)
          /\ \E h \in Range(sites_by_city_subcon[g].sites) :
                /\ PreDated(h)
                /\ \A i \in EngineDated(g) : sites[i].date = sites[h].date

\* The identities of the sites of the current group that are in a selected
\* pair and still in the pool.
PendingPairIds ==
    {GetSiteId(sites[i]) :
        i \in {j \in Range(unassigned_sites) :
                  \E q \in DOMAIN pairs : j \in {pairs[q][1], pairs[q][2]}}}

\* C22: for sites with pairwise distinct keys, at the start of every loop
\* iteration paired_site_ids holds exactly the identities of the members of
\* selected pairs that are still unassigned, it equals the key set of
\* site_to_pair, and the partner recorded for each such identity is still
\* unassigned too; so no step takes the branch "paired, but the partner is
\* no longer unassigned".
C22_PairedIdsArePending ==
    DistinctKeys =>
        /\ pc = "loop" =>
              /\ paired_site_ids = PendingPairIds
              /\ paired_site_ids = DOMAIN site_to_pair
              /\ \A id \in paired_site_ids :
                    /\ site_to_pair[id][1] \in Range(unassigned_sites)
                    /\ sites[site_to_pair[id][1]].date = NoDate
        /\ \A k \in DOMAIN steps : steps[k].branch # "partner_gone"

\* C22 witness: a loop with distinct keys whose last step dated a pair and
\* cleared it from paired_site_ids and site_to_pair, with a site still to go.
C22_Witness ==
    /\ pc = "loop"
    /\ DistinctKeys
    /\ steps # <<>>
    /\ steps[Len(steps)].group = group
    /\ steps[Len(steps)].branch = "pair"
    /\ pairs # <<>>
    /\ unassigned_sites # <<>>
    /\ paired_site_ids = {}

\* The sites of group g that had no date when the scheduler was built.
UndatedAtStart(g) ==
    {i \in Range(sites_by_city_subcon[g].sites) : ~PreDated(i)}

StepsOf(g) == {k \in DOMAIN steps : steps[k].group = g}

\* C23: the assignment loop of a group terminates: every iteration takes at
\* least one site out of the pool and none is ever put into it, so a group
\* with n undated sites is through after at most n iterations, and the whole
\* run comes to its end.
C23_LoopTerminates ==
    /\ [][pc = "loop" =>
             /\ Range(unassigned_sites') \subseteq Range(unassigned_sites)
             /\ steps' # steps => Len(unassigned_sites') < Len(unassigned_sites)]_vars
    /\ [](\A g \in DOMAIN sites_by_city_subcon :
             Cardinality(StepsOf(g)) <= Cardinality(UndatedAtStart(g)))
    /\ <>RunOver

\* C23 witness: a returned run over three sites in which a group of two
\* undated sites took two iterations, one site each, and emptied its pool.
C23_Witness ==
    /\ pc = "done"
    /\ Len(sites) = 3
    /\ unassigned_sites = <<>>
    /\ \E g \in DOMAIN sites_by_city_subcon :
          /\ Cardinality(UndatedAtStart(g)) = 2
          /\ Cardinality(StepsOf(g)) = 2

\* The pairs the pairing selected for group g, as its steps recorded them.
PairsOfGroup(g) == UNION {{steps[k].pairs} : k \in StepsOf(g)}

\* Group g has been scheduled to its end.
GroupFinished(g) == pc = "done" \/ (pc \in {"ready", "loop"} /\ g < group)

\* C24: for a group with n undated sites of pairwise distinct keys for which
\* the pairing selects p pairs, the engine performs exactly n - p assignment
\* steps; the group newly uses n - p distinct dates, the last of them
\* start_date + (n - p - 1) days.
C24_StepsAreSitesLessPairs ==
    DistinctKeys =>
        \A g \in DOMAIN sites_by_city_subcon :
            GroupFinished(g) /\ UndatedAtStart(g) # {} =>
                \E ps \in PairsOfGroup(g) :
                    LET n == Cardinality(UndatedAtStart(g))
                        p == Len(ps)
                        dates == {steps[k].date : k \in StepsOf(g)}
                    IN  /\ PairsOfGroup(g) = {ps}
                        /\ Cardinality(StepsOf(g)) = n - p
                        /\ Cardinality(dates) = n - p
                        /\ dates = {PlusDays(StartString, d) : d \in 0..(n - p - 1)}
                        /\ {sites[i].date : i \in UndatedAtStart(g)} = dates

\* C24 witness: a returned run with distinct keys in which a group of three
\* undated sites with one selected pair took two steps, on the start date
\* and on the day after it.
C24_Witness ==
    /\ pc = "done"
    /\ DistinctKeys
    /\ \E g \in DOMAIN sites_by_city_subcon :
          /\ Cardinality(UndatedAtStart(g)) = 3
          /\ \E ps \in PairsOfGroup(g) : Len(ps) = 1
          /\ {steps[k].date : k \in StepsOf(g)} = {StartString, NextDay(StartString)}

\* The input sites of the call that are in no returned pair.
LeftOut ==
    {i \in DOMAIN fp_sites :
        \A k \in DOMAIN fp_result : i \notin {fp_result[k][1], fp_result[k][2]}}

\* C25: the list find_pairs returns is a maximal matching, for every input
\* list of site records: no two input sites that are both left out of every
\* returned pair are within max_distance of each other.
C25_MaximalMatching ==
    pc = "returned" =>
        \A c \in FpNear : ~(c[1] \in LeftOut /\ c[2] \in LeftOut)

\* The same for lists of sites with pairwise distinct keys.
MaximalMatchingOnDistinctKeys ==
    (\A i, j \in DOMAIN fp_sites :
         i # j => GetSiteId(fp_sites[i]) # GetSiteId(fp_sites[j]))
        => C25_MaximalMatching

\* No site has another date or team_index than the earlier call left it.
SameAsPreviousRun ==
    /\ Len(sites) = Len(previous_run.sites)
    /\ \A i \in DOMAIN sites :
          /\ sites[i].date = previous_run.sites[i].date
          /\ sites[i].team_index = previous_run.sites[i].team_index

\* C26: schedule() is idempotent: a second call on the same scheduler, or a
\* call of a new scheduler with any start date on the dated output, changes
\* no site's date or team_index.
C26_ScheduleIdempotent == previous_run.called => SameAsPreviousRun

\* The same for a second call after a call that returned.
IdempotentAfterReturn ==
    previous_run.called /\ ~previous_run.raised => SameAsPreviousRun

\* A new scheduler with another start date has run on the output of a call
\* that dated three sites, and has returned.
RescheduledWithAnotherStart ==
    /\ pc = "done"
    /\ previous_run.called
    /\ previous_run.fresh
    /\ Len(sites) = 3
    /\ \A i \in DOMAIN sites :
          /\ sites[i].date # NoDate
          /\ sites[i].date # Strftime(self_current_date)
    /\ \E k \in DOMAIN steps : Len(steps[k].day_group) = 2

====
